---- MODULE Spec2Model ----
(***************************************************************************)
(* Model of the FrameCryptor control plane of webrtc-sys                   *)
(* (src/webrtc-sys/src/frame_cryptor.cpp).                                 *)
(*                                                                         *)
(* One FrameCryptor, bound to a sender or to a receiver, is used by        *)
(* NumThreads application threads and by one media thread.  Every C++      *)
(* call is a frame on the calling thread's stack; a frame's pc names the   *)
(* statement it executes next.  webrtc::Mutex is not reentrant: a thread   *)
(* that reaches a MutexLock while the mutex is held (by any thread,        *)
(* itself included) waits.                                                 *)
(*                                                                         *)
(* Spec is the control plane with the dispatch of state changes; FairSpec  *)
(* adds fair scheduling; FrameSpec adds the media frames the transformer   *)
(* processes; NewSpec is the construction for every algorithm value and    *)
(* track kind.                                                             *)
(***************************************************************************)
EXTENDS Integers, Sequences, FiniteSets, TLC

\* ---------------------------------------------------------------- bounds
NumThreads == 2
MaxBridges == 2
MaxCalls == 4

AppThreads == 1..NumThreads
\* the media thread of the pipeline the transformer is installed on
MediaThread == NumThreads + 1
Threads == AppThreads \cup {MediaThread}
BridgeIds == 1..MaxBridges
Null == 0

\* ---------------------------------------------------------------- int32_t
\* The key index is an int32_t end to end (i32 in Rust, int32_t here, int in
\* the transformer): it is stored and read back, never computed with.
MaxInt32 == 2147483647
MinInt32 == -MaxInt32 - 1
KeyInputs == {MinInt32, MaxInt32}

\* ---------------------------------------------------------------- events
\* A cryption-state change as the transformer reports it: a participant id and
\* a webrtc::FrameCryptionState.  static_cast<FrameCryptionState>(state) yields
\* the value of the bridge's enum that has the same integral value.
NativeState(n) == [enum |-> "webrtc::FrameCryptionState", value |-> n]
FrameCryptionState(state) ==
  [enum |-> "livekit::FrameCryptionState", value |-> state.value]
EventInputs == {[pid |-> "alice", state |-> NativeState(1)],
                [pid |-> "bob", state |-> NativeState(4)]}
NoEvent == [pid |-> "", state |-> NativeState(0)]
NoCallback == [to |-> Null, late |-> FALSE, freed |-> FALSE, pid |-> "",
               state |-> FrameCryptionState(NativeState(0))]
\* the callback an application observer receives from bridge b for event ev
Callback(b, ev, late, freed) ==
  [to |-> b, late |-> late, freed |-> freed, pid |-> ev.pid,
   state |-> FrameCryptionState(ev.state)]

\* ---------------------------------------------------------------- media frames
\* A media frame in the transformer: past the check of the enabled flag or
\* not, and what the check saw.  known and expected record what held when the
\* flag was checked: a set_enabled had returned and none was in progress, and
\* the argument of the last one that returned.
NoFrame == [pc |-> "idle", saw |-> FALSE, known |-> FALSE, expected |-> FALSE]

VARIABLES
  fc,            \* lifetime of the FrameCryptor
  direction,     \* "sender" or "receiver": which constructor built it
  sender_,       \* the FrameCryptor's reference to the sender
  receiver_,     \* the FrameCryptor's reference to the receiver
  senderSlot,    \* the sender's encoder-to-packetizer transformer slot
  receiverSlot,  \* the receiver's depacketizer-to-decoder transformer slot
  mutex_,        \* the thread holding FrameCryptor::mutex_, or Null
  observer_,     \* FrameCryptor::observer_ (unique_ptr): a bridge id or Null
  bridge,        \* every NativeFrameCryptorObserver: its lifetime
  tObserver,     \* the transformer's observer pointer: a bridge id or Null
  tEnabled,      \* the transformer's enabled flag
  tKeyIndex,     \* the transformer's key index
  stack,         \* per thread: the frames of its calls
  media,         \* the media thread: its position in a state-change dispatch
  ret,           \* the result of the control method that returned last
  lastSetEnabled,\* history: the argument of the last set_enabled that returned
  lastSetKey,    \* history: the argument of the last set_key_index that returned
  everTrue,      \* history: a set_enabled(true) has been called
  lastCb,        \* history: the last callback the application received
  unregEffects,  \* history: transformer pointer clears during destruction
  dropObserver,  \* history: the bridge registered when destruction began
  algorithm,     \* the Algorithm argument of new_frame_cryptor_for_rtp_*
  algorithmArg,  \* the constructor's algorithm argument, converted
  tAlgorithm,    \* the transformer's cipher algorithm
  kind,          \* the kind of the sender's or receiver's track
  mediaType,     \* the transformer's media type
  frame,         \* the media thread: the media frame it is processing
  crashed,       \* the process has crashed
  calls          \* the number of calls the application has made

vars == <<fc, direction, sender_, receiver_, senderSlot, receiverSlot, mutex_,
          observer_, bridge, tObserver, tEnabled, tKeyIndex, stack, media, ret,
          lastSetEnabled, lastSetKey, everTrue, lastCb, unregEffects, dropObserver,
          crashed, calls, algorithm, algorithmArg, tAlgorithm, kind, mediaType,
          frame>>

\* what the construction fixes
fixed == <<algorithm, algorithmArg, tAlgorithm, kind, mediaType>>
pipeline == <<direction, sender_, receiver_, senderSlot, receiverSlot>>
history == <<lastSetEnabled, lastSetKey, everTrue, dropObserver>>

\* ---------------------------------------------------------------- frames
Frame(fn, pc, b, k, id) ==
  [fn |-> fn, pc |-> pc, b |-> b, k |-> k, id |-> id, known |-> FALSE]

NoRet == [fn |-> "none", b |-> FALSE, k |-> 0, known |-> FALSE]
Ret(fn) == [NoRet EXCEPT !.fn = fn]

Depth(t) == Len(stack[t])
Idle(t) == stack[t] = <<>>
Top(t) == stack[t][Depth(t)]
At(t, fn, pc) == ~Idle(t) /\ Top(t).fn = fn /\ Top(t).pc = pc
Push(t, f) == [stack EXCEPT ![t] = Append(@, f)]
Pop(t) == [stack EXCEPT ![t] = SubSeq(@, 1, Len(@) - 1)]
Goto(t, pc) == [stack EXCEPT ![t][Depth(t)].pc = pc]
\* the control method a thread called from the application, if any
InCall(t, fn) == ~Idle(t) /\ stack[t][1].fn = fn
Calling(fn) == {t \in Threads : InCall(t, fn)}

FreeBridges == {b \in BridgeIds : bridge[b] = "unallocated"}
Attached == senderSlot = "transformer" \/ receiverSlot = "transformer"

\* ---------------------------------------------------------------- Init
\* The state on entry to the constructor body (line 67 or 86): the member
\* initialisers have run, the transformer of lines 71-73 / 90-92 exists and no
\* frame transformer is installed on the sender or receiver yet.  The
\* transformer's initial enabled flag is the library's choice.  The
\* FrameCryptor is one for an audio track and AesGcm; NewSpec covers the
\* construction for every algorithm value and track kind.
Init ==
  /\ fc = "constructing"
  /\ direction \in {"sender", "receiver"}
  /\ sender_ = (direction = "sender")
  /\ receiver_ = (direction = "receiver")
  /\ senderSlot = "empty"
  /\ receiverSlot = "empty"
  /\ mutex_ = Null
  /\ observer_ = Null
  /\ bridge = [b \in BridgeIds |-> "unallocated"]
  /\ tObserver = Null
  /\ tEnabled \in BOOLEAN
  /\ tKeyIndex = 0
  /\ stack = [t \in Threads |->
               IF t = 1 THEN <<Frame("FrameCryptor", "attach", FALSE, 0, Null)>>
               ELSE <<>>]
  /\ media = [pc |-> "idle", ptr |-> Null, ev |-> NoEvent]
  /\ ret = NoRet
  /\ lastSetEnabled = [known |-> FALSE, v |-> FALSE]
  /\ lastSetKey = [known |-> FALSE, v |-> 0]
  /\ everTrue = FALSE
  /\ lastCb = NoCallback
  /\ unregEffects = 0
  /\ dropObserver = Null
  /\ crashed = FALSE
  /\ calls = 0
  /\ algorithm = "AesGcm"
  /\ algorithmArg = "kAesGcm"
  /\ tAlgorithm = "kAesGcm"
  /\ kind = "audio"
  /\ mediaType = "kAudioFrame"
  /\ frame = NoFrame

\* ---------------------------------------------------------------- construction
\* The arguments of new_frame_cryptor_for_rtp_sender / _receiver: an Algorithm,
\* whose enum admits values other than its two enumerators, and the kind of
\* the track of the sender or receiver.
AlgorithmInputs == {"AesGcm", "AesCbc", "Algorithm(2)", "Algorithm(-1)"}
KindInputs == {"audio", "video", "Audio", ""}

\* mutant: a value that is no enumerator selects the other cipher
AlgorithmToFrameCryptorAlgorithm_cbc(a) ==
  CASE a = "AesGcm" -> "kAesGcm"
    [] OTHER -> "kAesCbc"

\* switch (algorithm) { case AesGcm: kAesGcm; case AesCbc: kAesCbc; default: kAesGcm }
AlgorithmToFrameCryptorAlgorithm(a) ==
  CASE a = "AesGcm" -> "kAesGcm"
    [] a = "AesCbc" -> "kAesCbc"
    [] OTHER -> "kAesGcm"

\* mutant: the kind is compared without regard to case
MediaTypeOfKind_anycase(k) ==
  IF k \in {"audio", "Audio"} THEN "kAudioFrame" ELSE "kVideoFrame"

\* track()->kind() == "audio" ? kAudioFrame : kVideoFrame
MediaTypeOfKind(k) ==
  IF k = "audio" THEN "kAudioFrame" ELSE "kVideoFrame"

\* The state on entry to new_frame_cryptor_for_rtp_sender / _receiver: no
\* FrameCryptor and no transformer exist yet.
NewInit ==
  /\ fc = "constructing"
  /\ direction \in {"sender", "receiver"}
  /\ sender_ = FALSE
  /\ receiver_ = FALSE
  /\ senderSlot = "empty"
  /\ receiverSlot = "empty"
  /\ mutex_ = Null
  /\ observer_ = Null
  /\ bridge = [b \in BridgeIds |-> "unallocated"]
  /\ tObserver = Null
  /\ tEnabled = FALSE
  /\ tKeyIndex = 0
  /\ stack = [t \in Threads |->
               IF t = 1
               THEN <<Frame("new_frame_cryptor", "convert", FALSE, 0, Null)>>
               ELSE <<>>]
  /\ media = [pc |-> "idle", ptr |-> Null, ev |-> NoEvent]
  /\ ret = NoRet
  /\ lastSetEnabled = [known |-> FALSE, v |-> FALSE]
  /\ lastSetKey = [known |-> FALSE, v |-> 0]
  /\ everTrue = FALSE
  /\ lastCb = NoCallback
  /\ unregEffects = 0
  /\ dropObserver = Null
  /\ crashed = FALSE
  /\ calls = 0
  /\ algorithm \in AlgorithmInputs
  /\ algorithmArg = "none"
  /\ tAlgorithm = "none"
  /\ kind \in KindInputs
  /\ mediaType = "none"
  /\ frame = NoFrame

\* std::make_shared<FrameCryptor>(..., AlgorithmToFrameCryptorAlgorithm(algorithm), ...)
new_frame_cryptor(t) ==
  /\ ~crashed
  /\ At(t, "new_frame_cryptor", "convert")
  /\ algorithmArg' = AlgorithmToFrameCryptorAlgorithm(algorithm)
  /\ stack' = [stack EXCEPT ![t] =
                 <<Frame("FrameCryptor", "init", FALSE, 0, Null)>>]
  /\ UNCHANGED <<frame, fc, pipeline, mutex_, observer_, bridge, tObserver,
                 tEnabled, tKeyIndex, media, ret, history, lastCb,
                 unregEffects, crashed, calls, algorithm, tAlgorithm, kind,
                 mediaType>>

\* the member initialisers: sender_(sender) or receiver_(receiver)
FrameCryptor_init(t) ==
  /\ ~crashed
  /\ At(t, "FrameCryptor", "init")
  /\ sender_' = (direction = "sender")
  /\ receiver_' = (direction = "receiver")
  /\ stack' = Goto(t, "mediaType")
  /\ UNCHANGED <<fixed, frame, fc, direction, senderSlot, receiverSlot,
                 mutex_, observer_, bridge, tObserver, tEnabled, tKeyIndex,
                 media, ret, history, lastCb, unregEffects, crashed, calls>>

\* auto mediaType = sender->track()->kind() == "audio" ? kAudioFrame : kVideoFrame;
\* the receiver's constructor has the same statement
FrameCryptor_mediaType(t) ==
  /\ ~crashed
  /\ At(t, "FrameCryptor", "mediaType")
  /\ mediaType' = MediaTypeOfKind(kind)
  /\ stack' = Goto(t, "transformer")
  /\ UNCHANGED <<frame, fc, pipeline, mutex_, observer_, bridge, tObserver,
                 tEnabled, tKeyIndex, media, ret, history, lastCb,
                 unregEffects, crashed, calls, algorithm, algorithmArg,
                 tAlgorithm, kind>>

\* e2ee_transformer_ = new webrtc::FrameCryptorTransformer(participant_id,
\* mediaType, algorithm, key_provider_); its initial enabled flag is the
\* library's choice
FrameCryptor_transformer(t) ==
  /\ ~crashed
  /\ At(t, "FrameCryptor", "transformer")
  /\ tAlgorithm' = algorithmArg
  /\ tEnabled' \in BOOLEAN
  /\ stack' = Goto(t, "attach")
  /\ UNCHANGED <<frame, fc, pipeline, mutex_, observer_, bridge, tObserver,
                 tKeyIndex, media, ret, history, lastCb, unregEffects,
                 crashed, calls, algorithm, algorithmArg, kind, mediaType>>

\* ---------------------------------------------------------------- constructor
\* mutant: the constructor installs the transformer on both attachment points
FrameCryptor_attach_both(t) ==
  /\ ~crashed
  /\ At(t, "FrameCryptor", "attach")
  /\ senderSlot' = "transformer"
  /\ receiverSlot' = "transformer"
  /\ stack' = Goto(t, "disable")
  /\ UNCHANGED <<fixed, frame, fc, direction, sender_, receiver_, mutex_,
                 observer_, bridge, tObserver, tEnabled, tKeyIndex, media,
                 ret, history, lastCb, unregEffects, crashed, calls>>

\* sender->SetEncoderToPacketizerFrameTransformer(e2ee_transformer_) or
\* receiver->SetDepacketizerToDecoderFrameTransformer(e2ee_transformer_)
FrameCryptor_attach(t) ==
  /\ ~crashed
  /\ At(t, "FrameCryptor", "attach")
  /\ senderSlot' = IF direction = "sender" THEN "transformer" ELSE senderSlot
  /\ receiverSlot' = IF direction = "receiver" THEN "transformer" ELSE receiverSlot
  /\ stack' = Goto(t, "disable")
  /\ UNCHANGED <<fixed, frame, fc, direction, sender_, receiver_, mutex_,
                 observer_, bridge, tObserver, tEnabled, tKeyIndex, media,
                 ret, history, lastCb, unregEffects, crashed, calls>>

\* mutant: the constructor returns without disabling the transformer
FrameCryptor_disable_skipped(t) ==
  /\ ~crashed
  /\ At(t, "FrameCryptor", "disable")
  /\ fc' = "alive"
  /\ stack' = Pop(t)
  /\ UNCHANGED <<fixed, frame, pipeline, mutex_, observer_, bridge, tObserver,
                 tEnabled, tKeyIndex, media, ret, history, lastCb,
                 unregEffects, crashed, calls>>

\* e2ee_transformer_->SetEnabled(false); the constructor returns
FrameCryptor_disable(t) ==
  /\ ~crashed
  /\ At(t, "FrameCryptor", "disable")
  /\ tEnabled' = FALSE
  /\ fc' = "alive"
  /\ stack' = Pop(t)
  /\ UNCHANGED <<fixed, frame, pipeline, mutex_, observer_, bridge, tObserver,
                 tKeyIndex, media, ret, history, lastCb, unregEffects,
                 crashed, calls>>

\* ---------------------------------------------------------------- the lock
\* mutant: a lock that admits a thread while another one holds it
MutexLock_unguarded(t) ==
  /\ ~crashed
  /\ ~Idle(t)
  /\ Top(t).pc = "lock"
  /\ mutex_' = t
  /\ stack' = Goto(t, "body")
  /\ UNCHANGED <<fixed, frame, fc, pipeline, observer_, bridge, tObserver,
                 tEnabled, tKeyIndex, media, ret, history, lastCb,
                 unregEffects, crashed, calls>>

\* webrtc::MutexLock lock(&mutex_): the first statement of every control method
MutexLock(t) ==
  /\ ~crashed
  /\ ~Idle(t)
  /\ Top(t).pc = "lock"
  /\ mutex_ = Null
  /\ mutex_' = t
  /\ stack' = Goto(t, "body")
  /\ UNCHANGED <<fixed, frame, fc, pipeline, observer_, bridge, tObserver,
                 tEnabled, tKeyIndex, media, ret, history, lastCb,
                 unregEffects, crashed, calls>>

\* A call of a setter by thread t begins.  The calls of that setter and of its
\* getter that are in progress overlap it: what they leave behind or return is
\* no longer determined by the calls that returned before them.
Begin(t, f, setter, getter) ==
  [u \in Threads |->
     IF u = t THEN <<f>>
     ELSE IF InCall(u, setter) \/ InCall(u, getter)
          THEN [stack[u] EXCEPT ![1].known = FALSE]
          ELSE stack[u]]

\* ---------------------------------------------------------------- set_enabled
set_enabled(t, b) ==
  /\ ~crashed
  /\ calls < MaxCalls
  /\ calls' = calls + 1
  /\ fc = "alive"
  /\ Idle(t)
  /\ stack' = Begin(t, [Frame("set_enabled", "lock", b, 0, Null) EXCEPT
                          !.known = (Calling("set_enabled") = {})],
                    "set_enabled", "enabled")
  /\ everTrue' = (everTrue \/ b)
  /\ ret' = IF ret.fn = "enabled" THEN NoRet ELSE ret
  /\ UNCHANGED <<fixed, frame, fc, pipeline, mutex_, observer_, bridge,
                 tObserver, tEnabled, tKeyIndex, media, lastSetEnabled,
                 lastSetKey, lastCb, unregEffects, crashed, dropObserver>>

\* mutant: set_enabled also resets the key index
set_enabled_body_resets(t) ==
  /\ ~crashed
  /\ At(t, "set_enabled", "body")
  /\ tEnabled' = Top(t).b
  /\ tKeyIndex' = 0
  /\ mutex_' = Null
  /\ lastSetEnabled' = [known |-> Top(t).known, v |-> Top(t).known /\ Top(t).b]
  /\ ret' = Ret("set_enabled")
  /\ stack' = Pop(t)
  /\ UNCHANGED <<fixed, frame, fc, pipeline, observer_, bridge, tObserver,
                 media, lastSetKey, everTrue, lastCb, unregEffects, crashed,
                 calls, dropObserver>>

\* mutant: set_enabled returns without writing the transformer's flag
set_enabled_body_dropped(t) ==
  /\ ~crashed
  /\ At(t, "set_enabled", "body")
  /\ mutex_' = Null
  /\ lastSetEnabled' = [known |-> Top(t).known, v |-> Top(t).known /\ Top(t).b]
  /\ ret' = Ret("set_enabled")
  /\ stack' = Pop(t)
  /\ UNCHANGED <<fixed, frame, fc, pipeline, observer_, bridge, tObserver,
                 tEnabled, tKeyIndex, media, lastSetKey, everTrue, lastCb,
                 unregEffects, crashed, calls, dropObserver>>

\* mutant: set_enabled only ever enables
set_enabled_body_sticky(t) ==
  /\ ~crashed
  /\ At(t, "set_enabled", "body")
  /\ tEnabled' = (tEnabled \/ Top(t).b)
  /\ mutex_' = Null
  /\ lastSetEnabled' = [known |-> Top(t).known, v |-> Top(t).known /\ Top(t).b]
  /\ ret' = Ret("set_enabled")
  /\ stack' = Pop(t)
  /\ UNCHANGED <<fixed, frame, fc, pipeline, observer_, bridge, tObserver,
                 tKeyIndex, media, lastSetKey, everTrue, lastCb, unregEffects,
                 crashed, calls, dropObserver>>

\* e2ee_transformer_->SetEnabled(enabled); the lock is released on return
set_enabled_body(t) ==
  /\ ~crashed
  /\ At(t, "set_enabled", "body")
  /\ tEnabled' = Top(t).b
  /\ mutex_' = Null
  /\ lastSetEnabled' = [known |-> Top(t).known, v |-> Top(t).known /\ Top(t).b]
  /\ ret' = Ret("set_enabled")
  /\ stack' = Pop(t)
  /\ UNCHANGED <<fixed, frame, fc, pipeline, observer_, bridge, tObserver,
                 tKeyIndex, media, lastSetKey, everTrue, lastCb, unregEffects,
                 crashed, calls, dropObserver>>

\* ---------------------------------------------------------------- enabled
enabled(t) ==
  /\ ~crashed
  /\ calls < MaxCalls
  /\ calls' = calls + 1
  /\ fc = "alive"
  /\ Idle(t)
  /\ stack' = Push(t, [Frame("enabled", "lock", FALSE, 0, Null) EXCEPT
                         !.known = (Calling("set_enabled") = {})])
  /\ UNCHANGED <<fixed, frame, fc, pipeline, mutex_, observer_, bridge,
                 tObserver, tEnabled, tKeyIndex, media, ret, history, lastCb,
                 unregEffects, crashed>>

\* return e2ee_transformer_->enabled();
enabled_body(t) ==
  /\ ~crashed
  /\ At(t, "enabled", "body")
  /\ ret' = [Ret("enabled") EXCEPT !.b = tEnabled, !.known = Top(t).known]
  /\ mutex_' = Null
  /\ stack' = Pop(t)
  /\ UNCHANGED <<fixed, frame, fc, pipeline, observer_, bridge, tObserver,
                 tEnabled, tKeyIndex, media, history, lastCb, unregEffects,
                 crashed, calls>>

\* ---------------------------------------------------------------- set_key_index
set_key_index(t, k) ==
  /\ ~crashed
  /\ calls < MaxCalls
  /\ calls' = calls + 1
  /\ fc = "alive"
  /\ Idle(t)
  /\ stack' = Begin(t, [Frame("set_key_index", "lock", FALSE, k, Null) EXCEPT
                          !.known = (Calling("set_key_index") = {})],
                    "set_key_index", "key_index")
  /\ ret' = IF ret.fn = "key_index" THEN NoRet ELSE ret
  /\ UNCHANGED <<fixed, frame, fc, pipeline, mutex_, observer_, bridge,
                 tObserver, tEnabled, tKeyIndex, media, history, lastCb,
                 unregEffects, crashed>>

\* mutant: set_key_index clamps a negative index to 0
set_key_index_body_clamped(t) ==
  /\ ~crashed
  /\ At(t, "set_key_index", "body")
  /\ tKeyIndex' = IF Top(t).k < 0 THEN 0 ELSE Top(t).k
  /\ mutex_' = Null
  /\ lastSetKey' = [known |-> Top(t).known,
                    v |-> IF Top(t).known THEN Top(t).k ELSE 0]
  /\ ret' = Ret("set_key_index")
  /\ stack' = Pop(t)
  /\ UNCHANGED <<fixed, frame, fc, pipeline, observer_, bridge, tObserver,
                 tEnabled, media, lastSetEnabled, everTrue, lastCb,
                 unregEffects, crashed, calls, dropObserver>>

\* e2ee_transformer_->SetKeyIndex(index);
set_key_index_body(t) ==
  /\ ~crashed
  /\ At(t, "set_key_index", "body")
  /\ tKeyIndex' = Top(t).k
  /\ mutex_' = Null
  /\ lastSetKey' = [known |-> Top(t).known,
                    v |-> IF Top(t).known THEN Top(t).k ELSE 0]
  /\ ret' = Ret("set_key_index")
  /\ stack' = Pop(t)
  /\ UNCHANGED <<fixed, frame, fc, pipeline, observer_, bridge, tObserver,
                 tEnabled, media, lastSetEnabled, everTrue, lastCb,
                 unregEffects, crashed, calls, dropObserver>>

\* ---------------------------------------------------------------- key_index
key_index(t) ==
  /\ ~crashed
  /\ calls < MaxCalls
  /\ calls' = calls + 1
  /\ fc = "alive"
  /\ Idle(t)
  /\ stack' = Push(t, [Frame("key_index", "lock", FALSE, 0, Null) EXCEPT
                         !.known = (Calling("set_key_index") = {})])
  /\ UNCHANGED <<fixed, frame, fc, pipeline, mutex_, observer_, bridge,
                 tObserver, tEnabled, tKeyIndex, media, ret, history, lastCb,
                 unregEffects, crashed>>

\* return e2ee_transformer_->key_index();
key_index_body(t) ==
  /\ ~crashed
  /\ At(t, "key_index", "body")
  /\ ret' = [Ret("key_index") EXCEPT !.k = tKeyIndex, !.known = Top(t).known]
  /\ mutex_' = Null
  /\ stack' = Pop(t)
  /\ UNCHANGED <<fixed, frame, fc, pipeline, observer_, bridge, tObserver,
                 tEnabled, tKeyIndex, media, history, lastCb, unregEffects,
                 crashed, calls>>

\* ---------------------------------------------------------------- bridge
\* delete of a NativeFrameCryptorObserver: a frame for its destructor
Delete(st, b) == Append(st, Frame("~NativeFrameCryptorObserver", "body", FALSE, 0, b))

\* mutant: the bridge's destructor does not unregister
NativeFrameCryptorObserver_dtor_empty(t) ==
  /\ ~crashed
  /\ At(t, "~NativeFrameCryptorObserver", "body")
  /\ bridge' = [bridge EXCEPT ![Top(t).id] = "destroying"]
  /\ stack' = Goto(t, "members")
  /\ UNCHANGED <<fixed, frame, fc, pipeline, mutex_, observer_, tObserver,
                 tEnabled, tKeyIndex, media, ret, history, lastCb,
                 unregEffects, crashed, calls>>

\* ~NativeFrameCryptorObserver() { fc_->unregister_observer(); }
NativeFrameCryptorObserver_dtor(t) ==
  /\ ~crashed
  /\ At(t, "~NativeFrameCryptorObserver", "body")
  /\ bridge' = [bridge EXCEPT ![Top(t).id] = "destroying"]
  /\ stack' = [stack EXCEPT ![t] =
                 Append(Goto(t, "members")[t],
                        Frame("unregister_observer", "lock", FALSE, 0, Null))]
  /\ UNCHANGED <<fixed, frame, fc, pipeline, mutex_, observer_, tObserver,
                 tEnabled, tKeyIndex, media, ret, history, lastCb,
                 unregEffects, crashed, calls>>

\* the destructor body has returned: the members (the application observer in
\* its rust::Box) are destroyed and the storage is freed
NativeFrameCryptorObserver_free(t) ==
  /\ ~crashed
  /\ At(t, "~NativeFrameCryptorObserver", "members")
  /\ bridge' = [bridge EXCEPT ![Top(t).id] = "freed"]
  /\ stack' = Pop(t)
  /\ UNCHANGED <<fixed, frame, fc, pipeline, mutex_, observer_, tObserver,
                 tEnabled, tKeyIndex, media, ret, history, lastCb,
                 unregEffects, crashed, calls>>

\* ---------------------------------------------------------------- register_observer
register_observer(t) ==
  /\ ~crashed
  /\ calls < MaxCalls
  /\ calls' = calls + 1
  /\ fc = "alive"
  /\ Idle(t)
  /\ stack' = Push(t, Frame("register_observer", "lock", FALSE, 0, Null))
  /\ UNCHANGED <<fixed, frame, fc, pipeline, mutex_, observer_, bridge,
                 tObserver, tEnabled, tKeyIndex, media, ret, history, lastCb,
                 unregEffects, crashed>>

\* observer_ = std::make_unique<NativeFrameCryptorObserver>(std::move(observer), this);
\* unique_ptr's assignment stores the new pointer, then deletes the old bridge.
register_observer_body(t) ==
  /\ ~crashed
  /\ At(t, "register_observer", "body")
  /\ FreeBridges # {}
  /\ LET new == CHOOSE b \in FreeBridges : \A c \in FreeBridges : b <= c
         old == observer_
     IN /\ bridge' = [bridge EXCEPT ![new] = "alive"]
        /\ observer_' = new
        /\ stack' = [stack EXCEPT ![t] =
                       IF old = Null THEN Goto(t, "set")[t]
                       ELSE Delete(Goto(t, "set")[t], old)]
  /\ UNCHANGED <<fixed, frame, fc, pipeline, mutex_, tObserver, tEnabled,
                 tKeyIndex, media, ret, history, lastCb, unregEffects,
                 crashed, calls>>

\* e2ee_transformer_->SetFrameCryptorTransformerObserver(observer_.get());
register_observer_set(t) ==
  /\ ~crashed
  /\ At(t, "register_observer", "set")
  /\ tObserver' = observer_
  /\ mutex_' = Null
  /\ ret' = Ret("register_observer")
  /\ stack' = Pop(t)
  /\ UNCHANGED <<fixed, frame, fc, pipeline, observer_, bridge, tEnabled,
                 tKeyIndex, media, history, lastCb, unregEffects, crashed,
                 calls>>

\* ---------------------------------------------------------------- unregister_observer
unregister_observer(t) ==
  /\ ~crashed
  /\ calls < MaxCalls
  /\ calls' = calls + 1
  /\ fc = "alive"
  /\ Idle(t)
  /\ stack' = Push(t, Frame("unregister_observer", "lock", FALSE, 0, Null))
  /\ UNCHANGED <<fixed, frame, fc, pipeline, mutex_, observer_, bridge,
                 tObserver, tEnabled, tKeyIndex, media, ret, history, lastCb,
                 unregEffects, crashed>>

\* observer_ = nullptr;  the slot is emptied, then the old bridge is deleted
unregister_observer_body(t) ==
  /\ ~crashed
  /\ At(t, "unregister_observer", "body")
  /\ observer_' = Null
  /\ stack' = [stack EXCEPT ![t] =
                 IF observer_ = Null THEN Goto(t, "set")[t]
                 ELSE Delete(Goto(t, "set")[t], observer_)]
  /\ UNCHANGED <<fixed, frame, fc, pipeline, mutex_, bridge, tObserver,
                 tEnabled, tKeyIndex, media, ret, history, lastCb,
                 unregEffects, crashed, calls>>

\* e2ee_transformer_->SetFrameCryptorTransformerObserver(nullptr);
unregister_observer_set(t) ==
  /\ ~crashed
  /\ At(t, "unregister_observer", "set")
  /\ tObserver' = Null
  /\ mutex_' = Null
  /\ unregEffects' = IF fc = "destroying" THEN unregEffects + 1 ELSE unregEffects
  /\ ret' = IF Depth(t) = 1 THEN Ret("unregister_observer") ELSE ret
  /\ stack' = Pop(t)
  /\ UNCHANGED <<fixed, frame, fc, pipeline, observer_, bridge, tEnabled,
                 tKeyIndex, media, history, lastCb, crashed, calls>>

\* ---------------------------------------------------------------- destructor
\* The last shared_ptr to the FrameCryptor is dropped: no call is in progress.
FrameCryptor_drop(t) ==
  /\ ~crashed
  /\ calls < MaxCalls
  /\ calls' = calls + 1
  /\ fc = "alive"
  /\ \A u \in Threads : Idle(u)
  /\ fc' = "destroying"
  /\ dropObserver' = observer_
  /\ stack' = Push(t, Frame("~FrameCryptor", "observer_", FALSE, 0, Null))
  /\ UNCHANGED <<fixed, frame, pipeline, mutex_, observer_, bridge, tObserver,
                 tEnabled, tKeyIndex, media, ret, lastSetEnabled, lastSetKey,
                 everTrue, lastCb, unregEffects, crashed>>

\* ~FrameCryptor() {}: the body is empty; the members are destroyed.  The
\* members' declaration order is in livekit/frame_cryptor.h; observer_ is taken
\* to be destroyed first, while mutex_ and e2ee_transformer_ still exist.
\* ~unique_ptr deletes the bridge; whether observer_ is already empty while
\* the bridge's destructor runs is the standard library's choice (libc++
\* empties it first, libstdc++ deletes first).
FrameCryptor_dtor_observer(t) ==
  /\ ~crashed
  /\ At(t, "~FrameCryptor", "observer_")
  /\ observer_' \in {Null, observer_}
  /\ stack' = [stack EXCEPT ![t] =
                 IF observer_ = Null THEN Goto(t, "members")[t]
                 ELSE Delete(Goto(t, "members")[t], observer_)]
  /\ UNCHANGED <<fixed, frame, fc, pipeline, mutex_, bridge, tObserver,
                 tEnabled, tKeyIndex, media, ret, history, lastCb,
                 unregEffects, crashed, calls>>

\* the remaining members are destroyed: the references to the transformer, the
\* key provider and the sender or receiver are released.  Nothing is called on
\* the sender or receiver, whose slot keeps the transformer.
FrameCryptor_dtor_members(t) ==
  /\ ~crashed
  /\ At(t, "~FrameCryptor", "members")
  /\ observer_' = Null
  /\ sender_' = FALSE
  /\ receiver_' = FALSE
  /\ fc' = "destroyed"
  /\ stack' = Pop(t)
  /\ UNCHANGED <<fixed, frame, direction, senderSlot, receiverSlot, mutex_,
                 bridge, tObserver, tEnabled, tKeyIndex, media, ret, history,
                 lastCb, unregEffects, crashed, calls>>

\* ---------------------------------------------------------------- media thread
\* The transformer, driven by the pipeline it is installed on, reports a
\* cryption-state change: it reads the observer pointer it was given.
Transformer_report(ev) ==
  /\ ~crashed
  /\ Attached
  /\ media.pc = "idle"
  /\ frame.pc = "idle"
  /\ tObserver # Null
  /\ media' = [pc |-> "call", ptr |-> tObserver, ev |-> ev]
  /\ UNCHANGED <<fixed, frame, fc, pipeline, mutex_, observer_, bridge,
                 tObserver, tEnabled, tKeyIndex, stack, ret, history, lastCb,
                 unregEffects, crashed, calls>>

\* mutant: the bridge forwards the participant id with a state of its own
OnFrameCryptionStateChanged_altered ==
  /\ ~crashed
  /\ media.pc = "call"
  /\ bridge[media.ptr] \in {"alive", "destroying"}
  /\ lastCb' = Callback(media.ptr, [media.ev EXCEPT !.state = NativeState(0)],
                        fc = "destroyed", FALSE)
  /\ media' = [pc |-> "callback", ptr |-> Null, ev |-> NoEvent]
  /\ UNCHANGED <<fixed, frame, fc, pipeline, mutex_, observer_, bridge,
                 tObserver, tEnabled, tKeyIndex, stack, ret, history,
                 unregEffects, crashed, calls>>

\* observer_->on_frame_cryption_state_change(participant_id, state): no lock is
\* taken.  On a bridge whose destructor has not finished the application
\* observer is still in place and receives the callback.
OnFrameCryptionStateChanged ==
  /\ ~crashed
  /\ media.pc = "call"
  /\ bridge[media.ptr] \in {"alive", "destroying"}
  /\ lastCb' = Callback(media.ptr, media.ev, fc = "destroyed", FALSE)
  /\ media' = [pc |-> "callback", ptr |-> Null, ev |-> NoEvent]
  /\ UNCHANGED <<fixed, frame, fc, pipeline, mutex_, observer_, bridge,
                 tObserver, tEnabled, tKeyIndex, stack, ret, history,
                 unregEffects, crashed, calls>>

\* The same call on a freed bridge is a use after free: the callback runs on
\* the freed application observer, or the process crashes.
OnFrameCryptionStateChanged_freed ==
  /\ ~crashed
  /\ media.pc = "call"
  /\ bridge[media.ptr] = "freed"
  /\ \/ /\ lastCb' = Callback(media.ptr, media.ev, fc = "destroyed", TRUE)
        /\ media' = [pc |-> "idle", ptr |-> Null, ev |-> NoEvent]
        /\ UNCHANGED crashed
     \/ /\ crashed' = TRUE
        /\ UNCHANGED <<lastCb, media>>
  /\ UNCHANGED <<fixed, frame, fc, pipeline, mutex_, observer_, bridge,
                 tObserver, tEnabled, tKeyIndex, stack, ret, history,
                 unregEffects, calls>>

\* The application observer's callback, and with it OnFrameCryptionStateChanged,
\* returns to the transformer.
OnFrameCryptionStateChanged_return ==
  /\ ~crashed
  /\ media.pc = "callback"
  /\ Idle(MediaThread)
  /\ media' = [media EXCEPT !.pc = "idle"]
  /\ UNCHANGED <<fixed, frame, fc, pipeline, mutex_, observer_, bridge,
                 tObserver, tEnabled, tKeyIndex, stack, ret, history, lastCb,
                 unregEffects, crashed, calls>>

\* The application observer's callback calls a control method of the
\* FrameCryptor it observes, on the media thread that delivers the callback.
InCallback == media.pc = "callback"
on_frame_cryption_state_change_set_enabled(b) ==
  InCallback /\ set_enabled(MediaThread, b)
on_frame_cryption_state_change_enabled ==
  InCallback /\ enabled(MediaThread)
on_frame_cryption_state_change_set_key_index(k) ==
  InCallback /\ set_key_index(MediaThread, k)
on_frame_cryption_state_change_key_index ==
  InCallback /\ key_index(MediaThread)

\* ---------------------------------------------------------------- media frames
\* The pipeline hands a media frame to the transformer installed on it; the
\* transformer checks its enabled flag, the one SetEnabled writes.
Transformer_frame ==
  /\ ~crashed
  /\ Attached
  /\ media.pc = "idle"
  /\ frame.pc = "idle"
  /\ LET known == lastSetEnabled.known /\ Calling("set_enabled") = {}
     IN frame' = [pc |-> "checked", saw |-> tEnabled, known |-> known,
                  expected |-> (known /\ lastSetEnabled.v)]
  /\ UNCHANGED <<fixed, fc, pipeline, mutex_, observer_, bridge, tObserver,
                 tEnabled, tKeyIndex, stack, media, ret, history, lastCb,
                 unregEffects, crashed, calls>>

\* the check saw the flag set: the frame is passed through the cipher
Transformer_cipher ==
  /\ ~crashed
  /\ frame.pc = "checked"
  /\ frame.saw
  /\ frame' = NoFrame
  /\ UNCHANGED <<fixed, fc, pipeline, mutex_, observer_, bridge, tObserver,
                 tEnabled, tKeyIndex, stack, media, ret, history, lastCb,
                 unregEffects, crashed, calls>>

\* the check saw the flag clear: the frame is passed on unchanged
Transformer_pass ==
  /\ ~crashed
  /\ frame.pc = "checked"
  /\ ~frame.saw
  /\ frame' = NoFrame
  /\ UNCHANGED <<fixed, fc, pipeline, mutex_, observer_, bridge, tObserver,
                 tEnabled, tKeyIndex, stack, media, ret, history, lastCb,
                 unregEffects, crashed, calls>>

\* ---------------------------------------------------------------- specification
\* a step of a call in progress on thread t
Continue(t) ==
  \/ FrameCryptor_attach(t)
  \/ FrameCryptor_disable(t)
  \/ MutexLock(t)
  \/ set_enabled_body(t)
  \/ enabled_body(t)
  \/ set_key_index_body(t)
  \/ key_index_body(t)
  \/ register_observer_body(t)
  \/ register_observer_set(t)
  \/ unregister_observer_body(t)
  \/ unregister_observer_set(t)
  \/ NativeFrameCryptorObserver_dtor(t)
  \/ NativeFrameCryptorObserver_free(t)
  \/ FrameCryptor_dtor_observer(t)
  \/ FrameCryptor_dtor_members(t)

Next ==
  \/ \E t \in AppThreads : FrameCryptor_attach(t)
  \/ \E t \in AppThreads : FrameCryptor_disable(t)
  \/ \E t \in Threads : MutexLock(t)
  \/ \E t \in AppThreads, b \in BOOLEAN : set_enabled(t, b)
  \/ \E t \in Threads : set_enabled_body(t)
  \/ \E t \in AppThreads : enabled(t)
  \/ \E t \in Threads : enabled_body(t)
  \/ \E t \in AppThreads, k \in KeyInputs : set_key_index(t, k)
  \/ \E t \in Threads : set_key_index_body(t)
  \/ \E t \in AppThreads : key_index(t)
  \/ \E t \in Threads : key_index_body(t)
  \/ \E t \in AppThreads : register_observer(t)
  \/ \E t \in AppThreads : register_observer_body(t)
  \/ \E t \in AppThreads : register_observer_set(t)
  \/ \E t \in AppThreads : unregister_observer(t)
  \/ \E t \in AppThreads : unregister_observer_body(t)
  \/ \E t \in AppThreads : unregister_observer_set(t)
  \/ \E t \in AppThreads : NativeFrameCryptorObserver_dtor(t)
  \/ \E t \in AppThreads : NativeFrameCryptorObserver_free(t)
  \/ \E t \in AppThreads : FrameCryptor_drop(t)
  \/ \E t \in AppThreads : FrameCryptor_dtor_observer(t)
  \/ \E t \in AppThreads : FrameCryptor_dtor_members(t)
  \/ \E ev \in EventInputs : Transformer_report(ev)
  \/ OnFrameCryptionStateChanged
  \/ OnFrameCryptionStateChanged_freed
  \/ OnFrameCryptionStateChanged_return
  \/ \E b \in BOOLEAN : on_frame_cryption_state_change_set_enabled(b)
  \/ on_frame_cryption_state_change_enabled
  \/ \E k \in KeyInputs : on_frame_cryption_state_change_set_key_index(k)
  \/ on_frame_cryption_state_change_key_index

Spec == Init /\ [][Next]_vars

\* Fair scheduling: a call in progress that can take a step infinitely often
\* takes it (the mutex is handed to every waiter), and so does the media thread.
FairSpec ==
  /\ Spec
  /\ \A t \in Threads : SF_vars(Continue(t))
  /\ WF_vars(OnFrameCryptionStateChanged \/ OnFrameCryptionStateChanged_freed
             \/ OnFrameCryptionStateChanged_return)

\* The construction of a FrameCryptor for every algorithm value, track kind
\* and direction.
NewNext ==
  \/ \E t \in AppThreads : new_frame_cryptor(t)
  \/ \E t \in AppThreads : FrameCryptor_init(t)
  \/ \E t \in AppThreads : FrameCryptor_mediaType(t)
  \/ \E t \in AppThreads : FrameCryptor_transformer(t)
  \/ \E t \in AppThreads : FrameCryptor_attach(t)
  \/ \E t \in AppThreads : FrameCryptor_disable(t)

NewSpec == NewInit /\ [][NewNext]_vars

\* The control plane together with the media frames the transformer
\* processes while it is installed.
FrameNext ==
  \/ Next
  \/ Transformer_frame
  \/ Transformer_cipher
  \/ Transformer_pass

FrameSpec == Init /\ [][FrameNext]_vars

\* ---------------------------------------------------------------- claims
ControlMethods == {"set_enabled", "enabled", "set_key_index", "key_index",
                   "register_observer", "unregister_observer"}
InControlMethod(t) == ~Idle(t) /\ stack[t][1].fn \in ControlMethods
Constructed == fc # "constructing"
\* thread t is the only one inside a call
Alone(t) == \A u \in AppThreads \ {t} : Idle(u)
\* an observer is registered: slot and transformer designate its live bridge
Registered == observer_ # Null /\ tObserver = observer_ /\ bridge[observer_] = "alive"

\* C1: every call of a control method eventually returns, from every reachable
\* state and under fair scheduling: no call blocks forever on the lock.
C1_EveryCallReturns ==
  \A t \in AppThreads : InControlMethod(t) ~> Idle(t)

\* C2: unregister_observer called after register_observer(o) leaves the
\* transformer's observer pointer null and the FrameCryptor's observer slot
\* empty, so that a state change reported afterwards reaches no observer.
C2_UnregisterDetaches ==
  \A t \in AppThreads :
    (InCall(t, "unregister_observer") /\ Alone(t) /\ Registered) ~>
      (tObserver = Null /\ observer_ = Null)

\* C3: register_observer(o2) called while o1 is registered replaces it: the
\* call returns with the transformer's pointer designating the bridge that
\* owns o2, the one in the FrameCryptor's slot, so that a later state change
\* reaches o2 and not o1.
C3_RegisterReplaces ==
  \A t \in AppThreads :
    (InCall(t, "register_observer") /\ Alone(t) /\ Registered) ~>
      (Idle(t) /\ ret.fn = "register_observer" /\ observer_ # Null
       /\ tObserver = observer_ /\ bridge[observer_] = "alive")

\* C4: the destruction of a FrameCryptor that has an observer registered
\* never gets stuck, clears the transformer's observer pointer exactly once,
\* and no callback reaches the application observer once it has completed.
C4_DropUnregistersOnce ==
  /\ fc = "destroying" => \E t \in AppThreads : ENABLED Continue(t)
  /\ fc = "destroyed" /\ dropObserver # Null =>
       unregEffects = 1 /\ tObserver = Null /\ ~lastCb.late

\* C5: after a FrameCryptor is destroyed, the transformer slot of the sender
\* or receiver it was bound to is empty.
C5_DetachedAfterDrop ==
  fc = "destroyed" => senderSlot = "empty" /\ receiverSlot = "empty"

\* C6: a constructed FrameCryptor is disabled, and enabled() returns false,
\* until set_enabled(true) is called for the first time.
C6_DisabledUntilEnabled ==
  Constructed /\ ~everTrue =>
    tEnabled = FALSE /\ (ret.fn = "enabled" => ret.b = FALSE)

C6_Witness ==
  /\ fc = "alive"
  /\ ~everTrue
  /\ ret.fn = "enabled"
  /\ ret.b = FALSE
  /\ lastSetKey.known

\* C7: an enabled() call that starts after the last set_enabled returned, and
\* that no set_enabled call overlaps, returns the value passed to that last
\* set_enabled, whatever other control methods ran in between.
C7_NoLostUpdate ==
  ret.fn = "enabled" /\ ret.known /\ lastSetEnabled.known =>
    ret.b = lastSetEnabled.v

C7_Witness ==
  /\ ret.fn = "enabled"
  /\ ret.known
  /\ lastSetEnabled.known
  /\ ret.b = TRUE
  /\ observer_ # Null
  /\ \E t \in AppThreads : InCall(t, "set_key_index")

\* C8: key_index() called after set_key_index(k), with no set_key_index in
\* between or overlapping, returns k for every int32 k, negative ones
\* included: the value is neither rejected nor clamped.
C8_KeyIndexRoundTrip ==
  /\ ret.fn = "key_index" /\ ret.known /\ lastSetKey.known =>
       ret.k = lastSetKey.v
  /\ lastSetKey.known /\ Calling("set_key_index") = {} =>
       tKeyIndex = lastSetKey.v

C8_Witness ==
  /\ ret.fn = "key_index"
  /\ ret.known
  /\ lastSetKey.known
  /\ ret.k = MinInt32

\* C9: unregister_observer is idempotent: a call of it, with or without an
\* observer registered, returns, and it returns with the slot empty, the
\* transformer's pointer null and the enabled flag and key index as they
\* were, so that a second call changes nothing.
C9_UnregisterIdempotent ==
  /\ [][\A t \in AppThreads :
          (InCall(t, "unregister_observer") /\ Idle(t)') =>
            /\ observer_' = Null
            /\ tObserver' = Null
            /\ tEnabled' = tEnabled
            /\ tKeyIndex' = tKeyIndex]_vars
  /\ \A t \in AppThreads :
       (InCall(t, "unregister_observer") /\ Alone(t)) ~>
         (Idle(t) /\ ret.fn = "unregister_observer")

\* C10, as stated: a non-null observer pointer in the transformer designates
\* a bridge that is alive: its destructor has not begun.
C10_ObserverAlive ==
  tObserver # Null => bridge[tObserver] = "alive"

\* C10: a non-null observer pointer in the transformer never designates a
\* freed bridge: the bridge's storage and its application observer are still
\* in place (its destructor may be running: it is what clears the pointer).
C10_NoDanglingObserver ==
  tObserver # Null => bridge[tObserver] \in {"alive", "destroying"}

C10_Witness ==
  \E b \in BridgeIds :
    bridge[b] = "freed" /\ dropObserver = b /\ tObserver = Null

\* the bridge's destructor on thread t is inside the unregister_observer it
\* calls through fc_, its back-reference to the FrameCryptor
UnregisterThroughFc(t) ==
  \E i \in 1..(Depth(t) - 1) :
    /\ stack[t][i].fn = "~NativeFrameCryptorObserver"
    /\ stack[t][i + 1].fn = "unregister_observer"

\* C11: whenever the bridge's destructor calls unregister_observer through its
\* back-reference, the FrameCryptor it designates is fully alive: its own
\* destruction, which destroys the lock, the observer slot and the transformer
\* reference, has not begun.
C11_BackReferenceAlive ==
  \A t \in AppThreads : UnregisterThroughFc(t) => fc = "alive"

\* thread t is past the MutexLock of a control method that has not returned
InBody(t) ==
  \E i \in 1..Depth(t) :
    stack[t][i].fn \in ControlMethods /\ stack[t][i].pc # "lock"
\* thread t has called a control method that has not returned
Executing(t) == \E i \in 1..Depth(t) : stack[t][i].fn \in ControlMethods

\* C12: the six control methods exclude one another: at most one thread is
\* inside the body of any of them, that thread holds the lock, and the lock is
\* held by no thread when no control method is executing.
C12_MutualExclusion ==
  /\ Cardinality({t \in Threads : InBody(t)}) <= 1
  /\ \A t \in Threads : InBody(t) => mutex_ = t
  /\ (\A t \in Threads : ~Executing(t)) => mutex_ = Null

C12_Witness ==
  \E t, u \in Threads :
    /\ t # u
    /\ InBody(t)
    /\ At(u, "set_enabled", "lock")
    /\ stack[t][1].fn = "register_observer"

\* C13: a frame whose enabled check happens after a set_enabled(b) returned,
\* with no set_enabled in progress, sees b: after set_enabled(true) every such
\* frame is processed as enabled, and after set_enabled(false) only frames
\* already past the check are still processed as enabled.
C13_FramesSeeLastSetEnabled ==
  frame.pc = "checked" /\ frame.known => frame.saw = frame.expected

C13_Witness ==
  /\ frame.pc = "checked"
  /\ frame.known
  /\ frame.saw
  /\ \E t \in Threads : At(t, "set_enabled", "lock") /\ ~Top(t).b

\* thread t takes a step of the call it is in: it enters, moves on or returns
StepOf(t) ==
  \/ Len(stack'[t]) # Len(stack[t])
  \/ ~Idle(t) /\ stack'[t][Depth(t)].pc # Top(t).pc

\* C14: set_enabled changes only the enabled flag: no step of a set_enabled
\* call, from its entry to its return, changes the key index, the observer
\* slot, the transformer's observer pointer or the sender or receiver
\* attachment.
C14_SetEnabledFrame ==
  [][\A t \in Threads :
       (StepOf(t) /\ (InCall(t, "set_enabled") \/ InCall(t, "set_enabled")')) =>
         UNCHANGED <<tKeyIndex, observer_, tObserver, pipeline>>]_vars

C14_Witness ==
  /\ ret.fn = "set_enabled"
  /\ tEnabled
  /\ tKeyIndex = MinInt32
  /\ Registered
  /\ Attached

\* C16: while an observer is registered, a state change the transformer
\* reports to its bridge is delivered by that very step, on the media thread,
\* as one call of the observer's on_frame_cryption_state_change with the
\* participant id and the state value reported: it is neither dropped nor
\* altered.
C16_EventForwarded ==
  [][(media.pc = "call" /\ media'.pc # "call" /\ Registered
      /\ media.ptr = observer_) =>
       /\ lastCb'.to = observer_
       /\ ~lastCb'.freed
       /\ lastCb'.pid = media.ev.pid
       /\ lastCb'.state.value = media.ev.state.value
       /\ media'.pc = "callback"
       /\ stack' = stack]_vars

C16_Witness ==
  /\ Registered
  /\ media.pc = "callback"
  /\ lastCb.to = observer_
  /\ lastCb.pid = "bob"
  /\ lastCb.state.value = 4

\* C17: a FrameCryptor is bound to one direction for its whole lifetime:
\* exactly one of its sender and receiver references is set, once constructed
\* its transformer is installed on that attachment point and on no other, and
\* no step after the construction changes the attachment.
C17_OneDirection ==
  /\ [](fc # "destroyed" => sender_ # receiver_)
  /\ [](fc \in {"alive", "destroying"} =>
          /\ sender_ => senderSlot = "transformer" /\ receiverSlot = "empty"
          /\ receiver_ => receiverSlot = "transformer" /\ senderSlot = "empty")
  /\ [][Constructed =>
          /\ UNCHANGED <<direction, senderSlot, receiverSlot>>
          /\ fc' # "destroyed" => UNCHANGED <<sender_, receiver_>>]_vars

C17_Witness ==
  /\ fc = "alive"
  /\ receiver_
  /\ ~sender_
  /\ receiverSlot = "transformer"
  /\ Registered
  /\ tEnabled
  /\ lastSetKey.known

\* C18: the algorithm mapping is total: AesGcm selects AES-GCM, AesCbc selects
\* AES-CBC and every other value selects AES-GCM, in the constructor's
\* argument and in the transformer built from it, and for no value does the
\* construction stop before the FrameCryptor exists.
C18_AlgorithmMapping ==
  /\ \A x \in {algorithmArg, tAlgorithm} \ {"none"} :
       /\ algorithm = "AesGcm" => x = "kAesGcm"
       /\ algorithm = "AesCbc" => x = "kAesCbc"
       /\ algorithm \notin {"AesGcm", "AesCbc"} => x = "kAesGcm"
  /\ ~crashed
  /\ fc = "constructing" => ENABLED NewNext
  /\ fc = "alive" => tAlgorithm # "none"

C18_Witness ==
  /\ fc = "alive"
  /\ algorithm = "Algorithm(2)"
  /\ tAlgorithm = "kAesGcm"

\* C19: the media type is fixed once, at construction, from the kind of the
\* track: audio exactly when the kind is the string "audio" and video for
\* every other kind, for a sender and for a receiver alike.
C19_MediaTypeFromKind ==
  /\ [](mediaType # "none" =>
          /\ mediaType \in {"kAudioFrame", "kVideoFrame"}
          /\ mediaType = "kAudioFrame" <=> kind = "audio")
  /\ [](fc = "alive" => mediaType # "none")
  /\ [][mediaType # "none" => mediaType' = mediaType]_vars

C19_Witness ==
  /\ fc = "alive"
  /\ direction = "receiver"
  /\ kind = "Audio"
  /\ mediaType = "kVideoFrame"

\* C20: the dispatch of a state change does not take the FrameCryptor's lock:
\* a dispatch in progress on the media thread can always be delivered,
\* whoever holds the lock, and a control method that the observer's callback
\* calls on the same FrameCryptor returns: while it waits for the lock, the
\* lock's holder can always take a step towards releasing it.
C20_DispatchTakesNoLock ==
  /\ media.pc = "call" /\ ~crashed =>
       ENABLED (OnFrameCryptionStateChanged \/ OnFrameCryptionStateChanged_freed)
  /\ mutex_ = MediaThread => InCallback
  /\ InCallback /\ ~Idle(MediaThread) /\ Top(MediaThread).pc = "lock"
       /\ mutex_ # Null /\ ~crashed =>
         ENABLED Continue(mutex_)

====
